---------------------------- MODULE Spec2Model ----------------------------
(***************************************************************************)
(* A model of @lykmapipo/http-client: the options merger (withDefaults),   *)
(* the response/error normaliser (mapResponseToError, wrapRequest), the    *)
(* singleton client handle (createHttpClient, disposeHttpClient) and the   *)
(* request shortcuts, as built in src/lib/index.js from src/src/utils.js.  *)
(***************************************************************************)
EXTENDS Integers, Sequences, FiniteSets, TLC

VARIABLES
    rawResponse,    \* mapResponseToError: the raw rejection handed in
    error,          \* mapResponseToError: the error it returned
    env,            \* the runtime: process.env's BASE_URL and
                    \* REACT_APP_BASE_URL, and whether it is Node
    optns,          \* withDefaults: the options handed in
    options,        \* withDefaults: the options it returned
    httpClient,     \* the client handle (src/lib/index.js:320)
    created,        \* how many clients axios.create has built
    returned,       \* what createHttpClient or disposeHttpClient returned last
    calls,          \* the request and shortcut calls, each with its promise
    requestOptions, \* normalizeRequest: the request handed in
    normalizedRequest,  \* normalizeRequest: the request it returned
    renormalizedRequest,    \* normalizeRequest: what it returned when
                            \* handed the request it had returned
    httpAgents,     \* createAgents: the agents it returned
    allPromise      \* all: the promise it returned

(***************************************************************************)
(* JavaScript values.  Every value is a record of one shape, so that any    *)
(* two values can be compared: t is the type tag, n the number, s the      *)
(* string (or, for an object the model does not look into, its label).     *)
(***************************************************************************)
Undefined == [t |-> "undefined", n |-> 0, s |-> ""]

Num(n) == [t |-> "number", n |-> n, s |-> ""]

Str(s) == [t |-> "string", n |-> 0, s |-> s]

ObjRef(s) == [t |-> "object", n |-> 0, s |-> s]

Bool(b) == [t |-> "boolean", n |-> IF b THEN 1 ELSE 0, s |-> ""]

\* ToBoolean: undefined, 0, false and '' are falsy, objects truthy (a key
\* that is absent reads as undefined).
Truthy(v) ==
    CASE v.t = "undefined" -> FALSE
      [] v.t = "absent" -> FALSE
      [] v.t = "number" -> v.n # 0
      [] v.t = "boolean" -> v.n # 0
      [] v.t = "string" -> v.s # ""
      [] OTHER -> TRUE

\* mutant of Or: the right operand wins whenever it is truthy
OrPrefersRight(a, b) == IF Truthy(b) THEN b ELSE a

\* a || b
Or(a, b) == IF Truthy(a) THEN a ELSE b

(***************************************************************************)
(* Bodies and responses.  An object is a record over the keys the          *)
(* normaliser reads; a key the object does not have holds Undefined.  t    *)
(* tells an object from a missing one.                                      *)
(***************************************************************************)
BodyKeys == {"code", "status", "message", "description", "errors"}

NoBody ==
    [t |-> "undefined", code |-> Undefined, status |-> Undefined,
     message |-> Undefined, description |-> Undefined, errors |-> Undefined]

EmptyBody == [NoBody EXCEPT !.t = "object"]

NoResponse ==
    [t |-> "undefined", code |-> Undefined, status |-> Undefined,
     statusText |-> Undefined, errors |-> Undefined, data |-> NoBody]

\* a response with scalar fields f and body data
MakeResponse(f, data) ==
    [t |-> "object", code |-> f.code, status |-> f.status,
     statusText |-> f.statusText, errors |-> f.errors, data |-> data]

\* a raw rejection
MakeRaw(top, data, request, response) ==
    [t |-> "object", code |-> top.code, status |-> top.status, message |-> top.message,
     description |-> top.description, errors |-> top.errors,
     data |-> data, request |-> request, response |-> response]

\* no rejection
NoRaw == MakeRaw(NoBody, NoBody, Undefined, NoResponse)

\* undefined as a rejection
UndefinedRaw == [NoRaw EXCEPT !.t = "undefined"]

\* no error
NoError ==
    [name |-> "none", code |-> Undefined, status |-> Undefined,
     message |-> Undefined, description |-> Undefined, errors |-> Undefined]

\* mutant of SpreadData: a computed field is kept when it is defined
SpreadDataComputedFirst(fields, data) ==
    [k \in BodyKeys |-> IF fields[k] # Undefined THEN fields[k] ELSE data[k]]

\* the fields of {code, status, message, description, errors, ...data}:
\* a key of data replaces the computed field of the same name
SpreadData(fields, data) ==
    [k \in BodyKeys |-> IF data[k] # Undefined THEN data[k] ELSE fields[k]]


(***************************************************************************)
(* Request options.  An options object is a record over the keys the       *)
(* package reads; a key the object does not have holds Undefined (headers: *)
(* no header, data: NoPayload, agentOptions: NoAgentOptions).  The model's *)
(* options never hold a key whose value is undefined.                      *)
(***************************************************************************)
HeaderKeys == {"Accept", "Content-Type", "content-type", "X-API-Key"}

EmptyHeaders == [k \in HeaderKeys |-> Undefined]

\* a key a mapping does not have (a key it has may hold undefined)
Absent == [t |-> "absent", n |-> 0, s |-> ""]

EntryKeys == {"name", "image"}

NoEntries == [k \in EntryKeys |-> Absent]

\* A payload: t is its type, n the length of a string or an array, entries
\* the entries of a plain mapping or of a form, ref tells one form-data
\* instance from another, getHeaders whether the payload has a getHeaders
\* function.
NoPayload ==
    [t |-> "undefined", n |-> 0, entries |-> NoEntries, ref |-> "",
     getHeaders |-> FALSE]

NullPayload == [NoPayload EXCEPT !.t = "null"]

StringPayload(n) == [NoPayload EXCEPT !.t = "string", !.n = n]

ArrayPayload(n) == [NoPayload EXCEPT !.t = "array", !.n = n]

Mapping(entries) == [NoPayload EXCEPT !.t = "object", !.entries = entries]

\* an instance of the form-data package's FormData
FormData(entries, ref) ==
    [t |-> "formdata", n |-> 0, entries |-> entries, ref |-> ref,
     getHeaders |-> TRUE]

\* an instance of FormData that has no getHeaders function (the FormData of
\* a browser, which the form-data package exports there)
BrowserFormData(entries, ref) ==
    [FormData(entries, ref) EXCEPT !.getHeaders = FALSE]

\* ToBoolean of a payload
PayloadTruthy(d) ==
    CASE d.t \in {"undefined", "null"} -> FALSE
      [] d.t = "string" -> d.n # 0
      [] OTHER -> TRUE

\* mutant of isEmpty: only null and undefined are empty
isEmptyNullish(d) == d.t \in {"undefined", "null"}

\* lodash isEmpty: null and undefined are empty, a string or an array when
\* its length is 0, a mapping when it has no key; a form-data instance has
\* own properties and is not empty.
isEmpty(d) ==
    CASE d.t \in {"undefined", "null"} -> TRUE
      [] d.t \in {"string", "array"} -> d.n = 0
      [] d.t = "object" -> \A k \in EntryKeys : d.entries[k] = Absent
      [] OTHER -> FALSE

NoAgentOptions == [t |-> "undefined", keepAlive |-> Undefined, ca |-> Undefined]

NoOptions ==
    [t |-> "undefined", method |-> Undefined, url |-> Undefined,
     baseURL |-> Undefined, headers |-> EmptyHeaders, data |-> NoPayload,
     multipart |-> Undefined, responseType |-> Undefined,
     agentOptions |-> NoAgentOptions,
     httpAgent |-> Undefined, httpsAgent |-> Undefined]

EmptyOptions == [NoOptions EXCEPT !.t = "object"]

ScalarKeys ==
    {"method", "url", "baseURL", "multipart", "responseType",
     "httpAgent", "httpsAgent"}

\* mutant of safeMergeObjects: a shallow merge, the headers of the later
\* source replace those of the earlier one
safeMergeObjectsShallow(a, b) ==
    [k \in DOMAIN NoOptions |->
        CASE k = "t" -> "object"
          [] k \in ScalarKeys -> Or(b[k], Or(a[k], Undefined))
          [] k = "headers" ->
                IF b.headers # EmptyHeaders THEN b.headers ELSE a.headers
          [] k = "data" ->
                IF PayloadTruthy(b.data) THEN b.data
                ELSE IF PayloadTruthy(a.data) THEN a.data ELSE NoPayload
          [] k = "agentOptions" ->
                IF b.agentOptions.t = "object" THEN b.agentOptions
                ELSE a.agentOptions]

\* safeMergeObjects(a, b) of @lykmapipo/common: the sources that are not
\* objects and the falsy entries of each source are dropped, and the rest is
\* merged into a new object, the later source winning; headers, a nested
\* mapping, are merged key by key.
safeMergeObjects(a, b) ==
    [k \in DOMAIN NoOptions |->
        CASE k = "t" -> "object"
          [] k \in ScalarKeys -> Or(b[k], Or(a[k], Undefined))
          [] k = "headers" ->
                [h \in HeaderKeys |->
                    IF b.headers[h] # Undefined THEN b.headers[h]
                    ELSE a.headers[h]]
          [] k = "data" ->
                IF PayloadTruthy(b.data) THEN b.data
                ELSE IF PayloadTruthy(a.data) THEN a.data ELSE NoPayload
          [] k = "agentOptions" ->
                IF b.agentOptions.t = "object" THEN b.agentOptions
                ELSE a.agentOptions]

(***************************************************************************)
(* withDefaults (src/src/utils.js:36-48).                                  *)
(***************************************************************************)
CONTENT_TYPE == Str("application/json")

\* getString(key) of @lykmapipo/env: the variable's string, undefined when
\* it is not set
getString(e, key) == e[key]

DefaultHeaders ==
    [EmptyHeaders EXCEPT !["Accept"] = CONTENT_TYPE,
                         !["Content-Type"] = CONTENT_TYPE]

\* mutant of withDefaults: the defaults win over the caller's options
withDefaultsOverCaller(e, o) ==
    safeMergeObjects(
        o,
        [EmptyOptions EXCEPT
            !.baseURL = Or(getString(e, "BASE_URL"),
                           getString(e, "REACT_APP_BASE_URL")),
            !.headers = DefaultHeaders])

\* mutant of withDefaults: REACT_APP_BASE_URL is preferred to BASE_URL
withDefaultsReactFirst(e, o) ==
    safeMergeObjects(
        [EmptyOptions EXCEPT
            !.baseURL = Or(getString(e, "REACT_APP_BASE_URL"),
                           getString(e, "BASE_URL")),
            !.headers = DefaultHeaders],
        o)

withDefaults(e, o) ==
    safeMergeObjects(
        [EmptyOptions EXCEPT
            !.baseURL = Or(getString(e, "BASE_URL"),
                           getString(e, "REACT_APP_BASE_URL")),
            !.headers = DefaultHeaders],
        o)

(***************************************************************************)
(* createAgents (src/src/utils.js:83-101).                                 *)
(***************************************************************************)
\* isNode of @lykmapipo/common: whether the runtime e is Node
isNode(e) == e.isNode

\* new http.Agent(agentOptions), new https.Agent(agentOptions): n tells
\* whether the agent keeps connections alive
Agent(kind, keepAlive) ==
    [t |-> "object", n |-> IF Truthy(keepAlive) THEN 1 ELSE 0, s |-> kind]

\* mergeObjects(a, b) of @lykmapipo/common differs from safeMergeObjects in
\* cloning its sources
mergeObjects(a, b) == safeMergeObjects(a, b)

\* isEmpty(agentOptions)
NoAgentOption(ao) ==
    ao.t = "undefined" \/ (ao.keepAlive = Undefined /\ ao.ca = Undefined)

\* mutant of createAgents: agents are created for empty agentOptions too
createAgentsAlways(e, o) ==
    LET agentOptions == withDefaults(e, o).agentOptions
        keepAlive == Or(agentOptions.keepAlive, Bool(TRUE))
    IN  IF isNode(e)
        THEN [EmptyOptions EXCEPT
                 !.httpAgent = Agent("http.Agent", keepAlive),
                 !.httpsAgent = Agent("https.Agent", keepAlive)]
        ELSE EmptyOptions

\* {httpAgent, httpsAgent}
createAgents(e, o) ==
    LET agentOptions == withDefaults(e, o).agentOptions
        \* mergeObjects({ keepAlive: true }, agentOptions)
        keepAlive == Or(agentOptions.keepAlive, Bool(TRUE))
    IN  IF isNode(e) /\ ~NoAgentOption(agentOptions)
        THEN [EmptyOptions EXCEPT
                 !.httpAgent = Agent("http.Agent", keepAlive),
                 !.httpsAgent = Agent("https.Agent", keepAlive)]
        ELSE EmptyOptions

(***************************************************************************)
(* isFormData, toFormData, normalizeRequest (src/src/utils.js:123-216).    *)
(***************************************************************************)
RESPONSE_TYPE == Str("json")

isFormData(d) == d.t = "formdata"

\* mutant of toFormData: every entry of the mapping is appended
toFormDataAll(d) ==
    IF isFormData(d) THEN FormData(NoEntries, "toFormData(form)")
    ELSE FormData(d.entries, "toFormData")

\* a new form with the entries whose key and value are truthy; handed a
\* form, forEach visits the form's own properties and not its entries, and
\* the new form is another instance
toFormData(d) ==
    IF isFormData(d) THEN FormData(NoEntries, "toFormData(form)")
    ELSE FormData([k \in EntryKeys |->
                      IF Truthy(d.entries[k]) THEN d.entries[k] ELSE Absent],
                  "toFormData")

\* startsWith(toLower(contentType), 'multipart') over the content types of
\* the model
MultipartTypes ==
    {"multipart/form-data", "Multipart/Form-Data",
     "multipart/form-data; boundary=x"}

\* mutant of IsMultipartType: the comparison is case-sensitive
IsMultipartTypeExact(v) ==
    v.t = "string" /\ v.s \in MultipartTypes \ {"Multipart/Form-Data"}

IsMultipartType(v) == v.t = "string" /\ v.s \in MultipartTypes

\* data.getHeaders() of a form
FormHeaders ==
    [EmptyHeaders EXCEPT
        !["content-type"] = Str("multipart/form-data; boundary=x")]

\* isValue(data): a payload that is not empty
isValue(d) == ~isEmpty(d)

\* mutant of normalizeRequest: the content-type headers are not deleted
\* before the headers of the form are merged in
normalizeRequestKeepsHeaders(request) ==
    LET headers == request.headers
        given == IF request.data.t = "undefined"
                 THEN Mapping(NoEntries) ELSE request.data
        contentType == Or(headers["content-type"], headers["Content-Type"])
        multipart ==
            \/ Truthy(request.multipart)
            \/ IsMultipartType(contentType)
            \/ isFormData(given)
        data == IF multipart /\ ~isFormData(given)
                THEN toFormData(given) ELSE given
    IN  [request EXCEPT
            !.headers =
                IF isFormData(data) /\ data.getHeaders
                THEN [h \in HeaderKeys |->
                         IF FormHeaders[h] # Undefined THEN FormHeaders[h]
                         ELSE headers[h]]
                ELSE headers,
            !.data = IF isValue(data) THEN data ELSE NoPayload,
            !.responseType =
                IF Truthy(request.responseType) THEN request.responseType
                ELSE RESPONSE_TYPE]

\* mutant of normalizeRequest: a multipart request's data is converted also
\* when it is a form already
normalizeRequestConvertsForms(request) ==
    LET headers == request.headers
        given == IF request.data.t = "undefined"
                 THEN Mapping(NoEntries) ELSE request.data
        contentType == Or(headers["content-type"], headers["Content-Type"])
        multipart ==
            \/ Truthy(request.multipart)
            \/ IsMultipartType(contentType)
            \/ isFormData(given)
        data == IF multipart THEN toFormData(given) ELSE given
        stripped == [headers EXCEPT !["content-type"] = Undefined,
                                    !["Content-Type"] = Undefined]
    IN  [request EXCEPT
            !.headers =
                IF isFormData(data) /\ data.getHeaders
                THEN [h \in HeaderKeys |->
                         IF FormHeaders[h] # Undefined THEN FormHeaders[h]
                         ELSE stripped[h]]
                ELSE headers,
            !.data = IF isValue(data) THEN data ELSE NoPayload,
            !.responseType =
                IF Truthy(request.responseType) THEN request.responseType
                ELSE RESPONSE_TYPE]

normalizeRequest(request) ==
    LET headers == request.headers
        given == IF request.data.t = "undefined"
                 THEN Mapping(NoEntries) ELSE request.data
        contentType == Or(headers["content-type"], headers["Content-Type"])
        multipart ==
            \/ Truthy(request.multipart)
            \/ IsMultipartType(contentType)
            \/ isFormData(given)
        data == IF multipart /\ ~isFormData(given)
                THEN toFormData(given) ELSE given
        stripped == [headers EXCEPT !["content-type"] = Undefined,
                                    !["Content-Type"] = Undefined]
    IN  [request EXCEPT
            !.headers =
                IF isFormData(data) /\ data.getHeaders
                THEN [h \in HeaderKeys |->
                         IF FormHeaders[h] # Undefined THEN FormHeaders[h]
                         ELSE stripped[h]]
                ELSE headers,
            !.data = IF isValue(data) THEN data ELSE NoPayload,
            !.responseType =
                IF Truthy(request.responseType) THEN request.responseType
                ELSE RESPONSE_TYPE]

(***************************************************************************)
(* mapResponseToError (src/src/utils.js:255-296).                          *)
(***************************************************************************)
\* An Error as the normaliser leaves it.
MakeError(f) ==
    [name |-> "Error", code |-> f.code, status |-> f.status,
     message |-> f.message, description |-> f.description,
     errors |-> f.errors]

\* new Error(message).message: '' when message is undefined, else the
\* string (the model's messages and descriptions are strings).
ErrorMessage(message) == IF message.t = "undefined" THEN Str("") ELSE message

\* assign(error, source) of @lykmapipo/common: the falsy entries of the
\* source are dropped, the others are copied onto the error.
\* error.code, status, description and errors do not exist before.
AssignError(message, source) ==
    MakeError([k \in BodyKeys |->
        IF Truthy(source[k]) THEN source[k]
        ELSE IF k = "message" THEN ErrorMessage(message)
        ELSE Undefined])

\* mutant of ServerResponseFields: the rejection's own message is preferred
\* to the status text
ServerResponseFieldsOwnMessageFirst(raw) ==
    LET response == raw.response
        data == IF response.data.t = "object" THEN response.data
                ELSE IF raw.data.t = "object" THEN raw.data
                ELSE EmptyBody
        message == Or(Or(data.message, raw.message), response.statusText)
    IN  [code |-> Or(response.code, raw.code),
         status |-> Or(response.status, raw.status),
         message |-> message,
         description |-> Or(raw.description, message),
         errors |-> Or(Or(response.errors, raw.errors), ObjRef("{}")),
         data |-> data]

\* mutant of ServerResponseFields: the rejection's own code and status are
\* preferred to the response's
ServerResponseFieldsTopFirst(raw) ==
    LET response == raw.response
        data == IF response.data.t = "object" THEN response.data
                ELSE IF raw.data.t = "object" THEN raw.data
                ELSE EmptyBody
        message == Or(Or(data.message, response.statusText), raw.message)
    IN  [code |-> Or(raw.code, response.code),
         status |-> Or(raw.status, response.status),
         message |-> message,
         description |-> Or(raw.description, message),
         errors |-> Or(Or(response.errors, raw.errors), ObjRef("{}")),
         data |-> data]

\* if (response) { ... }
ServerResponseFields(raw) ==
    LET response == raw.response
        data == IF response.data.t = "object" THEN response.data
                ELSE IF raw.data.t = "object" THEN raw.data
                ELSE EmptyBody
        message == Or(Or(data.message, response.statusText), raw.message)
    IN  [code |-> Or(response.code, raw.code),
         status |-> Or(response.status, raw.status),
         message |-> message,
         description |-> Or(raw.description, message),
         errors |-> Or(Or(response.errors, raw.errors), ObjRef("{}")),
         data |-> data]

\* mutant of NoResponseFields: the defaults of the setup branch
NoResponseFieldsAs400(raw) ==
    LET description == Or(raw.description, Str("Bad Request"))
    IN  [code |-> Or(raw.code, Num(400)),
         status |-> Or(raw.status, Num(400)),
         message |-> Or(raw.message, description),
         description |-> description,
         errors |-> raw.errors,
         data |-> raw.data]

\* else if (request) { ... }
NoResponseFields(raw) ==
    LET description == Or(raw.description, Str("Service Unavailable"))
    IN  [code |-> Or(raw.code, Num(503)),
         status |-> Or(raw.status, Num(503)),
         message |-> Or(raw.message, description),
         description |-> description,
         errors |-> raw.errors,
         data |-> raw.data]

\* mutant of RequestSetupFields: the description defaults to the message
RequestSetupFieldsFromMessage(raw) ==
    LET description ==
            Or(Or(raw.description, raw.message), Str("Bad Request"))
    IN  [code |-> Or(raw.code, Num(400)),
         status |-> Or(raw.status, Num(400)),
         message |-> Or(raw.message, description),
         description |-> description,
         errors |-> raw.errors,
         data |-> raw.data]

\* mutant of RequestSetupFields: the status is left without a default
RequestSetupFieldsNoStatus(raw) ==
    LET description == Or(raw.description, Str("Bad Request"))
    IN  [code |-> Or(raw.code, Num(400)),
         status |-> raw.status,
         message |-> Or(raw.message, description),
         description |-> description,
         errors |-> raw.errors,
         data |-> raw.data]

\* else { ... }
RequestSetupFields(raw) ==
    LET description == Or(raw.description, Str("Bad Request"))
    IN  [code |-> Or(raw.code, Num(400)),
         status |-> Or(raw.status, Num(400)),
         message |-> Or(raw.message, description),
         description |-> description,
         errors |-> raw.errors,
         data |-> raw.data]

\* mutant of Branch: the request is tested before the response
BranchRequestFirst(raw) ==
    IF Truthy(raw.request) THEN "request"
    ELSE IF raw.response.t = "object" THEN "response"
    ELSE "setup"

\* which of the three branches a raw rejection takes
Branch(raw) ==
    IF raw.response.t = "object" THEN "response"
    ELSE IF Truthy(raw.request) THEN "request"
    ELSE "setup"

SelectFields(raw) ==
    CASE Branch(raw) = "response" -> ServerResponseFields(raw)
      [] Branch(raw) = "request" -> NoResponseFields(raw)
      [] OTHER -> RequestSetupFields(raw)

mapResponseToError(raw) ==
    LET f == SelectFields(raw)
    IN  AssignError(f.message, SpreadData(f, f.data))

(***************************************************************************)
(* wrapRequest (src/src/utils.js:316-320) and mapResponseToData (235).     *)
(***************************************************************************)
mapResponseToData(response) == response.data

\* mutant of WrapThen: skipData is ignored
WrapThenData(response, skipData) ==
    [kind |-> "data", data |-> mapResponseToData(response)]

\* what the .then callback returns; mapResponseToData reads response.data,
\* which throws a TypeError when the response is undefined or null
WrapThen(response, skipData) ==
    IF skipData THEN [kind |-> "response", data |-> NoBody]
    ELSE IF response.t \in {"undefined", "null"}
    THEN [kind |-> "thrown", data |-> NoBody]
    ELSE [kind |-> "data", data |-> mapResponseToData(response)]

\* the TypeError thrown by reading a property of undefined or null
TypeError ==
    [NoError EXCEPT !.name = "TypeError",
                    !.message = Str("Cannot read properties of undefined")]

\* the TypeError, as the .catch callback receives it
ThrownTypeError ==
    MakeRaw([NoBody EXCEPT !.message = TypeError.message],
            NoBody, Undefined, NoResponse)

\* what the .catch callback rejects with: the error mapResponseToError
\* returns, or the TypeError its destructuring of undefined or null throws
WrapCatch(raw) ==
    IF raw.t \in {"undefined", "null"} THEN TypeError
    ELSE mapResponseToError(raw)

(***************************************************************************)
(* The client handle and the calls (src/lib/index.js:319-760).             *)
(***************************************************************************)
MaxCalls == 1

MaxClients == 2

MaxNow == 1

\* httpClient = null (and, before the first call, undefined)
NoClient == [t |-> "null", instance |-> 0, id |-> 0, defaults |-> NoOptions]

\* mutant of ClientOptions: the baseURL is not omitted
ClientOptionsWithBaseURL(e, o) == withDefaults(e, o)

\* omit(withDefaults(optns), 'baseURL')
ClientOptions(e, o) == [withDefaults(e, o) EXCEPT !.baseURL = Undefined]

\* axios.create(clientOptions), with id = Date.now()
NewClient(e, o, instance, id) ==
    [t |-> "object", instance |-> instance, id |-> id,
     defaults |-> ClientOptions(e, o)]

\* mutant of createHttpClient: a client is built on every call
createHttpClientAlways(client, e, o, instance, id) ==
    NewClient(e, o, instance, id)

\* createHttpClient(optns): the handle after the call, which is what the
\* call returns
createHttpClient(client, e, o, instance, id) ==
    IF client.t = "object" THEN client ELSE NewClient(e, o, instance, id)

\* mutant of disposeHttpClient: the handle is kept
disposeHttpClientKeeps(client) == client

\* disposeHttpClient(): the handle after the call, which is what the call
\* returns
disposeHttpClient(client) == NoClient

\* { ...base, ...optns }: a key of optns replaces the key of base
Spread(base, o) ==
    [k \in DOMAIN NoOptions |->
        CASE k = "t" -> "object"
          [] k \in ScalarKeys -> IF o[k] # Undefined THEN o[k] ELSE base[k]
          [] k = "headers" ->
                IF o.headers # EmptyHeaders THEN o.headers ELSE base.headers
          [] k = "data" ->
                IF o.data.t # "undefined" THEN o.data ELSE base.data
          [] k = "agentOptions" ->
                IF o.agentOptions.t # "undefined" THEN o.agentOptions
                ELSE base.agentOptions]

\* the request options that request(optns) hands to normalizeRequest
PreparedRequest(e, o) ==
    LET opts == withDefaults(e, o)
        agents == createAgents(e, opts)
    IN  safeMergeObjects(opts, agents)

\* the request that request(optns) hands to client.request
NormalizedRequest(e, o) ==
    LET opts == withDefaults(e, o)
        agents == createAgents(e, opts)
    IN  normalizeRequest(safeMergeObjects(opts, agents))

\* new Error('Missing Payload')
MissingPayload ==
    [name |-> "Error", code |-> Undefined, status |-> Undefined,
     message |-> Str("Missing Payload"), description |-> Undefined,
     errors |-> Undefined]

\* A call: op is the function called, payload its data argument, args its
\* options argument, optns the
\* argument of request() (of the shortcut, when it rejects before calling
\* request()), client the instance whose request method was invoked (0:
\* none), request what it was handed, transport the
\* state of the promise client.request returned, response and rejection
\* what that promise settled with, promise the state of the promise the
\* call returned, result what that one settled with ("response": the raw
\* response, "data": data, "raw": the raw rejection, "error": error).
NoCall ==
    [op |-> "", payload |-> NoPayload, args |-> NoOptions,
     optns |-> NoOptions, client |-> 0,
     request |-> NoOptions, skipData |-> FALSE, wrapped |-> FALSE,
     transport |-> "none", response |-> NoResponse, rejection |-> NoRaw,
     promise |-> "pending", result |-> "none", data |-> NoBody,
     error |-> NoError]

\* Promise.reject(new Error('Missing Payload'))
RejectedCall(op, data, o) ==
    [NoCall EXCEPT !.op = op, !.payload = data, !.args = o, !.optns = o,
                   !.promise = "rejected",
                   !.result = "error",
                   !.error = MissingPayload]

\* client.request(normalizedRequest) has been invoked
IssuedCall(op, data, a, o, client, request, skipData, wrapped) ==
    [NoCall EXCEPT !.op = op, !.payload = data, !.args = a, !.optns = o,
                   !.client = client.instance,
                   !.request = request, !.skipData = skipData,
                   !.wrapped = wrapped, !.transport = "pending"]

\* nothing returned yet
NoReturn == [op |-> "", optns |-> NoOptions, client |-> NoClient]

\* all(...requests) has not been called.  Of the promise axios.all returns:
\* n is the number of requests, seen the requests whose settlement it has
\* reacted to, values what they were fulfilled with, reason the index of the
\* request whose rejection it was rejected with
NoAll ==
    [n |-> 0, state |-> "none", seen |-> {}, values |-> << >>, reason |-> 0]

utilVars ==
    <<requestOptions, normalizedRequest, renormalizedRequest, httpAgents>>

\* normalizeRequest and createAgents are not in use
IdleUtils ==
    /\ requestOptions = NoOptions
    /\ normalizedRequest = NoOptions
    /\ renormalizedRequest = NoOptions
    /\ httpAgents = NoOptions

\* the variables of the pure-function harnesses, which the client leaves alone
harnessVars == <<rawResponse, error, optns, options, utilVars>>

\* process.env.BASE_URL = ..., delete process.env.BASE_URL, ...
SetEnv(e) ==
    /\ e # env
    /\ env' = e
    /\ UNCHANGED <<httpClient, created, returned, calls, allPromise,
                   harnessVars>>

CreateHttpClient(o, id) ==
    /\ httpClient.t = "object" \/ created < MaxClients
    /\ httpClient' = createHttpClient(httpClient, env, o, created + 1, id)
    /\ created' = IF httpClient' = httpClient THEN created ELSE created + 1
    /\ returned' =
          [op |-> "createHttpClient", optns |-> o, client |-> httpClient']
    /\ UNCHANGED <<env, calls, allPromise, harnessVars>>

\* mutant of DisposeHttpClient: the requests in flight are rejected
DisposeHttpClientAborts ==
    /\ httpClient' = disposeHttpClient(httpClient)
    /\ returned' =
          [op |-> "disposeHttpClient", optns |-> NoOptions,
           client |-> httpClient']
    /\ calls' =
          [i \in 1..Len(calls) |->
              IF calls[i].transport = "pending"
              THEN [calls[i] EXCEPT !.transport = "rejected"]
              ELSE calls[i]]
    /\ UNCHANGED <<env, created, allPromise, harnessVars>>

DisposeHttpClient ==
    /\ httpClient' = disposeHttpClient(httpClient)
    /\ returned' =
          [op |-> "disposeHttpClient", optns |-> NoOptions,
           client |-> httpClient']
    /\ UNCHANGED <<env, created, calls, allPromise, harnessVars>>

\* the bounds leave room for one more call, and for the client it may build
CanIssue ==
    /\ Len(calls) < MaxCalls
    /\ httpClient.t = "object" \/ created < MaxClients

\* request(optns), on behalf of op; wrapped: through wrapRequest
IssueRequest(op, data, a, o, skipData, wrapped, id) ==
    LET opts == withDefaults(env, o)
        client == createHttpClient(httpClient, env, opts, created + 1, id)
    IN  /\ httpClient' = client
        /\ created' = IF client = httpClient THEN created ELSE created + 1
        /\ calls' = Append(calls,
              IssuedCall(op, data, a, o, client, NormalizedRequest(env, o),
                         skipData, wrapped))
        /\ UNCHANGED <<env, returned, allPromise, harnessVars>>

\* return Promise.reject(new Error('Missing Payload'))
RejectMissingPayload(op, data, o) ==
    /\ Len(calls) < MaxCalls
    /\ calls' = Append(calls, RejectedCall(op, data, o))
    /\ UNCHANGED <<env, httpClient, created, returned, allPromise,
                   harnessVars>>

\* optns = {} when the argument is omitted
OrEmpty(o) == IF o.t = "undefined" THEN EmptyOptions ELSE o

\* { method, url, ...optns }
WithMethod(method, url, o) ==
    Spread([EmptyOptions EXCEPT !.method = Str(method), !.url = url],
           OrEmpty(o))

\* { method, url, data, ...optns }
WithPayload(method, url, data, o) ==
    Spread([EmptyOptions EXCEPT !.method = Str(method), !.url = url,
                                !.data = data],
           OrEmpty(o))

\* mutant of Request: the promise goes through wrapRequest
RequestWrapped(o, id) ==
    /\ CanIssue
    /\ IssueRequest("request", NoPayload, o, o, FALSE, TRUE, id)

Request(o, id) ==
    /\ CanIssue
    /\ IssueRequest("request", NoPayload, o, o, FALSE, FALSE, id)

Del(url, o, id) ==
    /\ CanIssue
    /\ IssueRequest("del", NoPayload, o, WithMethod("DELETE", url, o),
                 FALSE, TRUE, id)

Get(url, o, id) ==
    /\ CanIssue
    /\ IssueRequest("get", NoPayload, o, WithMethod("GET", url, o),
                 FALSE, TRUE, id)

\* (Head is the Sequences operator)
head(url, o, id) ==
    /\ CanIssue
    /\ IssueRequest("head", NoPayload, o, WithMethod("HEAD", url, o),
                 TRUE, TRUE, id)

Options(url, o, id) ==
    /\ CanIssue
    /\ IssueRequest("options", NoPayload, o, WithMethod("OPTIONS", url, o),
                 TRUE, TRUE, id)

Patch(url, data, o, id) ==
    IF isEmpty(data) THEN RejectMissingPayload("patch", data, o)
    ELSE /\ CanIssue
         /\ IssueRequest("patch", data, o, WithPayload("PATCH", url, data, o),
                      FALSE, TRUE, id)

Post(url, data, o, id) ==
    IF isEmpty(data) THEN RejectMissingPayload("post", data, o)
    ELSE /\ CanIssue
         /\ IssueRequest("post", data, o, WithPayload("POST", url, data, o),
                      FALSE, TRUE, id)

Put(url, data, o, id) ==
    IF isEmpty(data) THEN RejectMissingPayload("put", data, o)
    ELSE /\ CanIssue
         /\ IssueRequest("put", data, o, WithPayload("PUT", url, data, o),
                      FALSE, TRUE, id)

\* mutant of SendFile: the request is not marked multipart
SendFilePlain(url, data, o, id) ==
    IF ~PayloadTruthy(data) \/ isEmpty(data)
    THEN RejectMissingPayload("sendFile", data, o)
    ELSE /\ CanIssue
         /\ IssueRequest("sendFile", data, o,
                         WithPayload("POST", url, data, o),
                         FALSE, TRUE, id)

SendFile(url, data, o, id) ==
    IF ~PayloadTruthy(data) \/ isEmpty(data)
    THEN RejectMissingPayload("sendFile", data, o)
    ELSE /\ CanIssue
         /\ IssueRequest("sendFile", data, o,
            WithPayload("POST", url, data,
                mergeObjects(o, [EmptyOptions EXCEPT
                                    !.multipart = Bool(TRUE)])),
            FALSE, TRUE, id)

\* mutant of FetchFile: the caller's responseType is preferred
FetchFileCallerFirst(url, o, id) ==
    /\ CanIssue
    /\ IssueRequest("fetchFile", NoPayload, o,
        WithMethod("GET", url,
            mergeObjects([EmptyOptions EXCEPT !.responseType = Str("stream")],
                         OrEmpty(o))),
        FALSE, TRUE, id)

FetchFile(url, o, id) ==
    /\ CanIssue
    /\ IssueRequest("fetchFile", NoPayload, o,
        WithMethod("GET", url,
            mergeObjects(OrEmpty(o), [EmptyOptions EXCEPT
                                         !.responseType = Str("stream")])),
        FALSE, TRUE, id)

\* the transport fulfils the promise of call i with response r; the promise
\* request() returned is that promise
TransportFulfil(i, r) ==
    /\ i <= Len(calls)
    /\ calls[i].transport = "pending"
    /\ calls' = [calls EXCEPT
          ![i].transport = "fulfilled",
          ![i].response = r,
          ![i].promise = IF calls[i].wrapped THEN "pending" ELSE "fulfilled",
          ![i].result = IF calls[i].wrapped THEN "none" ELSE "response"]
    /\ UNCHANGED <<env, httpClient, created, returned, allPromise,
                   harnessVars>>

\* the transport rejects the promise of call i with raw
TransportReject(i, raw) ==
    /\ i <= Len(calls)
    /\ calls[i].transport = "pending"
    /\ calls' = [calls EXCEPT
          ![i].transport = "rejected",
          ![i].rejection = raw,
          ![i].promise = IF calls[i].wrapped THEN "pending" ELSE "rejected",
          ![i].result = IF calls[i].wrapped THEN "none" ELSE "raw"]
    /\ UNCHANGED <<env, httpClient, created, returned, allPromise,
                   harnessVars>>

\* wrapRequest's .then callback runs for call i
WrapRequestThen(i) ==
    /\ i <= Len(calls)
    /\ calls[i].wrapped /\ calls[i].promise = "pending"
    /\ calls[i].transport = "fulfilled"
    /\ LET v == WrapThen(calls[i].response, calls[i].skipData)
       IN  calls' =
             IF v.kind = "thrown"
             THEN [calls EXCEPT ![i].promise = "rejected",
                                ![i].result = "error",
                                ![i].error = WrapCatch(ThrownTypeError)]
             ELSE [calls EXCEPT ![i].promise = "fulfilled",
                                ![i].result = v.kind,
                                ![i].data = v.data]
    /\ UNCHANGED <<env, httpClient, created, returned, allPromise,
                   harnessVars>>

\* wrapRequest's .catch callback runs for call i
WrapRequestCatch(i) ==
    /\ i <= Len(calls)
    /\ calls[i].wrapped /\ calls[i].promise = "pending"
    /\ calls[i].transport = "rejected"
    /\ calls' = [calls EXCEPT ![i].promise = "rejected",
                              ![i].result = "error",
                              ![i].error = WrapCatch(calls[i].rejection)]
    /\ UNCHANGED <<env, httpClient, created, returned, allPromise,
                   harnessVars>>

(***************************************************************************)
(* The raw rejections the normaliser is applied to: every combination of   *)
(* the fields it reads, with at most MaxFields of them populated.  A       *)
(* status may be 0 and a message '' (present, but falsy).                  *)
(***************************************************************************)
MaxFields == 4

Populated(o, keys) == Cardinality({k \in keys : o[k] # Undefined})

TopKeys == {"code", "status", "message", "description", "errors"}

ResponseKeys == {"code", "status", "statusText", "errors"}

AllBodies ==
    [t : {"object"},
     code : {Undefined, Num(422)},
     status : {Undefined, Num(422), Num(0)},
     message : {Undefined, Str("Validation Failed")},
     description : {Undefined, Str("Invalid payload")},
     errors : {Undefined, ObjRef("body.errors")}]

\* no body at all (size 0), and the bodies with exactly k fields
Bodies(k) ==
    {b \in AllBodies : Populated(b, BodyKeys) = k}
        \cup (IF k = 0 THEN {NoBody} ELSE {})

AllTops ==
    [code : {Undefined, Str("ECONNABORTED")},
     status : {Undefined, Num(500), Num(0)},
     message : {Undefined, Str("Request Failed"), Str("")},
     description : {Undefined, Str("Timeout")},
     errors : {Undefined, ObjRef("errors")}]

Tops(k) == {o \in AllTops : Populated(o, TopKeys) = k}

AllResponseFields ==
    [code : {Undefined, Num(409)},
     status : {Undefined, Num(404), Num(0)},
     statusText : {Undefined, Str("Not Found")},
     errors : {Undefined, ObjRef("response.errors")}]

\* no response at all (size 0), and the responses with exactly k fields,
\* their body's included
Responses(k) ==
    UNION {{MakeResponse(f, d) :
               f \in {g \in AllResponseFields : Populated(g, ResponseKeys) = i},
               d \in Bodies(k - i)} : i \in 0..k}
        \cup (IF k = 0 THEN {NoResponse} ELSE {})

\* the populated fields of a response, and of a raw rejection
ResponseSize(r) == Populated(r, ResponseKeys) + Populated(r.data, BodyKeys)

RawSize(raw) ==
    Populated(raw, TopKeys) + Populated(raw.data, BodyKeys)
        + ResponseSize(raw.response)

\* how MaxFields or fewer fields divide over the rejection's data, its
\* response and its top level
Sizes ==
    {z \in (0..MaxFields) \X (0..MaxFields) \X (0..MaxFields) :
        z[1] + z[2] + z[3] <= MaxFields}

\* raw is one of the rejections with at most MaxFields fields
IsRawResponse(raw) ==
    \E z \in Sizes :
        \E d \in Bodies(z[1]), rs \in Responses(z[2]), top \in Tops(z[3]) :
            \E rq \in {Undefined, ObjRef("request")} :
                raw = MakeRaw(top, d, rq, rs)

(***************************************************************************)
(* SpecError: mapResponseToError applied to one raw rejection.             *)
(***************************************************************************)
errorVars == <<rawResponse, error>>

defaultsVars == <<env, optns, options>>

clientVars == <<httpClient, created, returned, calls, allPromise>>

vars == <<errorVars, defaultsVars, clientVars, utilVars>>

\* no client and no call
IdleClient ==
    /\ httpClient = NoClient
    /\ created = 0
    /\ returned = NoReturn
    /\ calls = << >>
    /\ allPromise = NoAll

NoEnv ==
    [BASE_URL |-> Undefined, REACT_APP_BASE_URL |-> Undefined, isNode |-> TRUE]

\* withDefaults is not in use
IdleDefaults == env = NoEnv /\ optns = NoOptions /\ options = NoOptions

\* mapResponseToError is not in use
IdleError == rawResponse = NoRaw /\ error = NoError

InitError ==
    /\ IsRawResponse(rawResponse)
    /\ error = NoError
    /\ IdleDefaults
    /\ IdleClient
    /\ IdleUtils

MapResponseToError ==
    /\ error = NoError
    /\ error' = mapResponseToError(rawResponse)
    /\ UNCHANGED <<rawResponse, defaultsVars, clientVars, utilVars>>

NextError == MapResponseToError

SpecError == InitError /\ [][NextError]_vars

(***************************************************************************)
(* SpecDefaults: withDefaults applied to one options object in one         *)
(* environment.  A variable of the environment is not set, set to the      *)
(* empty string, or set to a URL.                                          *)
(***************************************************************************)
Envs ==
    [BASE_URL : {Undefined, Str(""), Str("https://127.0.0.1/v1/")},
     REACT_APP_BASE_URL : {Undefined, Str(""), Str("https://127.0.0.1/v2/")},
     isNode : {TRUE}]

CallerHeaders ==
    {EmptyHeaders,
     [EmptyHeaders EXCEPT !["X-API-Key"] = Str("key")],
     [EmptyHeaders EXCEPT !["Accept"] = Str("text/plain")],
     [EmptyHeaders EXCEPT !["Content-Type"] = Str("multipart/form-data")],
     [EmptyHeaders EXCEPT !["content-type"] = Str("multipart/form-data")]}

\* the options handed to withDefaults: none, {} and objects with a baseURL,
\* headers, a multipart flag and a responseType
CallerOptions ==
    {NoOptions} \cup
    {[EmptyOptions EXCEPT !.baseURL = b, !.headers = h, !.multipart = m,
                          !.responseType = r] :
        b \in {Undefined, Str(""), Str("https://127.0.0.1/v3/")},
        h \in CallerHeaders,
        m \in {Undefined, Bool(TRUE), Bool(FALSE)},
        r \in {Undefined, Str("stream")}}

InitDefaults ==
    /\ env \in Envs
    /\ optns \in CallerOptions
    /\ options = NoOptions
    /\ IdleError
    /\ IdleClient
    /\ IdleUtils

WithDefaults ==
    /\ options = NoOptions
    /\ options' = withDefaults(env, optns)
    /\ UNCHANGED <<env, optns, errorVars, clientVars, utilVars>>

\* createHttpClient(optns) with the same options
CreateDefaultsClient ==
    \E id \in 0..MaxNow : httpClient = NoClient /\ CreateHttpClient(optns, id)

NextDefaults == WithDefaults \/ CreateDefaultsClient

SpecDefaults == InitDefaults /\ [][NextDefaults]_vars

\* the same value, or two falsy values (no baseURL and an empty one)
SameSetting(a, b) == a = b \/ (~Truthy(a) /\ ~Truthy(b))

\* C10 (as stated): withDefaults() and withDefaults({}) return baseURL equal
\* to BASE_URL when it is set, otherwise REACT_APP_BASE_URL, and exactly the
\* two default headers.
C10_Original ==
    (options # NoOptions /\ optns \in {NoOptions, EmptyOptions}) =>
        /\ SameSetting(options.baseURL,
                       IF env.BASE_URL # Undefined THEN env.BASE_URL
                       ELSE env.REACT_APP_BASE_URL)
        /\ options.headers = DefaultHeaders

\* C10 (amended): withDefaults() and withDefaults({}) return baseURL equal
\* to BASE_URL when it is set to a non-empty string, otherwise to
\* REACT_APP_BASE_URL when that is set to a non-empty string, otherwise no
\* (or an empty) baseURL; the headers are exactly Accept and Content-Type,
\* both 'application/json'.
C10_Defaults ==
    (options # NoOptions /\ optns \in {NoOptions, EmptyOptions}) =>
        /\ IF Truthy(env.BASE_URL) THEN options.baseURL = env.BASE_URL
           ELSE IF Truthy(env.REACT_APP_BASE_URL)
                THEN options.baseURL = env.REACT_APP_BASE_URL
           ELSE ~Truthy(options.baseURL)
        /\ options.headers = DefaultHeaders
        /\ options.headers["Accept"] = Str("application/json")
        /\ options.headers["Content-Type"] = Str("application/json")

\* both variables set: BASE_URL wins
C10_Witness ==
    /\ options # NoOptions /\ optns = EmptyOptions
    /\ Truthy(env.BASE_URL) /\ Truthy(env.REACT_APP_BASE_URL)
    /\ options.baseURL = env.BASE_URL
    /\ options.headers = DefaultHeaders

(***************************************************************************)
(* Claims about mapResponseToError, checked under SpecError.               *)
(***************************************************************************)
Mapped == error # NoError

\* the body whose fields are copied onto the error
SelectedData(raw) == SelectFields(raw).data

\* the rejection gives no value of its own for field k: none that is truthy
\* at its top level, and no field k in the body copied onto the error
SuppliesNo(raw, k) == ~Truthy(raw[k]) /\ SelectedData(raw)[k] = Undefined

\* C1 (as stated): a rejection with a request and no response is given
\* status 503 and code 503, and description "Service Unavailable" when it
\* has no description.
C1_Original ==
    (Mapped /\ Branch(rawResponse) = "request") =>
        /\ error.status = Num(503)
        /\ error.code = Num(503)
        /\ rawResponse.description = Undefined =>
               error.description = Str("Service Unavailable")

\* C1 (amended): a rejection with a request and no response is given status
\* 503 when it supplies no status of its own, code 503 when it supplies no
\* code of its own, and description "Service Unavailable" when it supplies
\* no description of its own (at its top level or in its data).
C1_NoResponseDefaults ==
    (Mapped /\ Branch(rawResponse) = "request") =>
        /\ SuppliesNo(rawResponse, "status") => error.status = Num(503)
        /\ SuppliesNo(rawResponse, "code") => error.code = Num(503)
        /\ SuppliesNo(rawResponse, "description") =>
               error.description = Str("Service Unavailable")

C1_Witness ==
    /\ Mapped /\ Branch(rawResponse) = "request"
    /\ Truthy(rawResponse.message)
    /\ error.status = Num(503) /\ error.code = Num(503)
    /\ error.description = Str("Service Unavailable")

\* C2 (as stated): a rejection with neither request nor response is given
\* status 400 and code 400, and description "Bad Request" when it has no
\* description.
C2_Original ==
    (Mapped /\ Branch(rawResponse) = "setup") =>
        /\ error.status = Num(400)
        /\ error.code = Num(400)
        /\ rawResponse.description = Undefined =>
               error.description = Str("Bad Request")

\* C2 (amended): a rejection with neither request nor response is given
\* status 400 when it supplies no status of its own, code 400 when it
\* supplies no code of its own, and description "Bad Request" when it
\* supplies no description of its own (at its top level or in its data).
C2_RequestSetupDefaults ==
    (Mapped /\ Branch(rawResponse) = "setup") =>
        /\ SuppliesNo(rawResponse, "status") => error.status = Num(400)
        /\ SuppliesNo(rawResponse, "code") => error.code = Num(400)
        /\ SuppliesNo(rawResponse, "description") =>
               error.description = Str("Bad Request")

C2_Witness ==
    /\ Mapped /\ Branch(rawResponse) = "setup"
    /\ Truthy(rawResponse.message)
    /\ error.status = Num(400) /\ error.code = Num(400)
    /\ error.description = Str("Bad Request")

\* C3 (as stated): a rejection with a response is given the response's
\* status and the response's code when the response has them, whatever the
\* rejection's top level and the response body hold.
C3_Original ==
    (Mapped /\ Branch(rawResponse) = "response") =>
        /\ Truthy(rawResponse.response.status) =>
               error.status = rawResponse.response.status
        /\ Truthy(rawResponse.response.code) =>
               error.code = rawResponse.response.code

\* C3 (amended): a rejection with a response is given the response's status
\* when that is truthy and the body copied onto the error (response.data,
\* else the rejection's own data) has no status field, and the response's
\* code when that is truthy and that body has no code field, whatever the
\* rejection's top-level code, status, message and description hold.
C3_MirrorsResponse ==
    (Mapped /\ Branch(rawResponse) = "response") =>
        /\ (/\ Truthy(rawResponse.response.status)
            /\ SelectedData(rawResponse).status = Undefined) =>
               error.status = rawResponse.response.status
        /\ (/\ Truthy(rawResponse.response.code)
            /\ SelectedData(rawResponse).code = Undefined) =>
               error.code = rawResponse.response.code

C3_Witness ==
    /\ Mapped /\ Branch(rawResponse) = "response"
    /\ Truthy(rawResponse.status) /\ Truthy(rawResponse.code)
    /\ Truthy(rawResponse.response.status)
    /\ Truthy(rawResponse.response.code)
    /\ error.status = rawResponse.response.status
    /\ error.code = rawResponse.response.code
    /\ error.status # rawResponse.status

NormalizedKeys == {"status", "code", "message", "description"}

\* C4 (as stated): in all three branches a truthy message, description, code
\* or status at the top level of the rejection is the error's.
C4_Original ==
    Mapped =>
        \A k \in NormalizedKeys :
            Truthy(rawResponse[k]) => error[k] = rawResponse[k]

\* C4 (amended): in the setup and no-response branches a truthy message,
\* description, code or status at the top level of the rejection is the
\* error's, unless the rejection's data has a field of that name.  In the
\* server-response branch that holds of the description alone; the top-level
\* code and status stand only when the response has no truthy one, and the
\* top-level message only when neither response.data.message nor
\* response.statusText is truthy.
C4_CallerPrecedence ==
    Mapped =>
        LET raw == rawResponse
            data == SelectedData(raw)
        IN  IF Branch(raw) # "response"
            THEN \A k \in NormalizedKeys :
                    (Truthy(raw[k]) /\ data[k] = Undefined) =>
                        error[k] = raw[k]
            ELSE /\ (Truthy(raw.description) /\ data.description = Undefined)
                        => error.description = raw.description
                 /\ (/\ Truthy(raw.code) /\ data.code = Undefined
                     /\ ~Truthy(raw.response.code)) => error.code = raw.code
                 /\ (/\ Truthy(raw.status) /\ data.status = Undefined
                     /\ ~Truthy(raw.response.status))
                        => error.status = raw.status
                 /\ (/\ Truthy(raw.message) /\ data.message = Undefined
                     /\ ~Truthy(raw.response.statusText))
                        => error.message = raw.message

\* a setup or no-response rejection whose own four fields replaced all the
\* defaults
C4_Witness ==
    /\ Mapped /\ Branch(rawResponse) = "request"
    /\ \A k \in NormalizedKeys :
          Truthy(rawResponse[k]) /\ error[k] = rawResponse[k]
    /\ error.status # Num(503) /\ error.code # Num(503)
    /\ error.description # Str("Service Unavailable")

\* C5: every error mapResponseToError builds has a defined status, code,
\* message and description.
C5_AllFieldsDefined ==
    Mapped =>
        /\ error.name = "Error"
        /\ \A k \in NormalizedKeys : error[k] # Undefined

(***************************************************************************)
(* Spec: the client handle over a run of createHttpClient,                 *)
(* disposeHttpClient, request and shortcut calls, with the environment     *)
(* changing in between and the transport settling the requests in any      *)
(* order.                                                                  *)
(***************************************************************************)
SpecEnvs ==
    {NoEnv,
     [NoEnv EXCEPT !.BASE_URL = Str("https://127.0.0.1/v1/")],
     [NoEnv EXCEPT !.REACT_APP_BASE_URL = Str("https://127.0.0.1/v2/")]}

SpecOptions ==
    {EmptyOptions,
     [EmptyOptions EXCEPT !.headers["X-API-Key"] = Str("key")]}

\* the options handed to sendFile: also none, multipart: false and a method
FileOptions ==
    SpecOptions \cup
    {NoOptions,
     [EmptyOptions EXCEPT !.multipart = Bool(FALSE)],
     [EmptyOptions EXCEPT !.method = Str("PATCH")]}

\* the options handed to request: also with a responseType, or an empty one
RequestOptions ==
    SpecOptions \cup
    {[EmptyOptions EXCEPT !.responseType = Str("blob")],
     [EmptyOptions EXCEPT !.responseType = Str("")]}

\* the options handed to fetchFile: also none, a responseType and a method
FetchOptions ==
    SpecOptions \cup
    {NoOptions,
     [EmptyOptions EXCEPT !.responseType = Str("blob")],
     [EmptyOptions EXCEPT !.method = Str("POST")]}

\* the options handed to get: also a baseURL
GetOptions ==
    SpecOptions \cup {[EmptyOptions EXCEPT
                          !.baseURL = Str("https://127.0.0.1/v3/")]}

\* the options handed to post: also the multipart flag, and options with a
\* method, a url and data of their own
PostOptions ==
    SpecOptions \cup
    {[EmptyOptions EXCEPT !.multipart = Bool(TRUE)],
     [EmptyOptions EXCEPT
         !.method = Str("DELETE"), !.url = Str("/other"),
         !.data = Mapping([NoEntries EXCEPT !.name = Str("y")])]}

Urls == {Str("/users")}

EmptyPayloads ==
    {NoPayload, NullPayload, Mapping(NoEntries), ArrayPayload(0),
     StringPayload(0)}

SpecPayloads ==
    EmptyPayloads \cup
    {Mapping([NoEntries EXCEPT !.name = Str("x")]),
     FormData([NoEntries EXCEPT !.image = ObjRef("file")], "form")}

\* mappings that have keys, with values that are falsy
FalsyMappings ==
    {Mapping([NoEntries EXCEPT !.name = Str("")]),
     Mapping([NoEntries EXCEPT !.name = Undefined, !.image = Num(0)])}

\* the payloads handed to post and sendFile
FilePayloads ==
    SpecPayloads \cup FalsyMappings \cup
    {Mapping([NoEntries EXCEPT !.name = Str(""), !.image = ObjRef("file")])}

OkResponse ==
    MakeResponse([code |-> Undefined, status |-> Num(200),
                  statusText |-> Str("OK"), errors |-> Undefined],
                 [EmptyBody EXCEPT !.message = Str("users")])

SpecResponses == {OkResponse}

\* no response: a network error
NetworkError ==
    MakeRaw([NoBody EXCEPT !.code = Str("ECONNABORTED"),
                           !.message = Str("Request Failed")],
            NoBody, ObjRef("request"), NoResponse)

\* a reply with an error status
NotFound ==
    MakeRaw([NoBody EXCEPT !.message = Str("Request Failed")],
            NoBody, ObjRef("request"),
            MakeResponse([code |-> Undefined, status |-> Num(404),
                          statusText |-> Str("Not Found"),
                          errors |-> Undefined],
                         [EmptyBody EXCEPT
                             !.message = Str("Validation Failed")]))

SpecRejections == {NetworkError, NotFound}

Init ==
    /\ env = NoEnv
    /\ IdleClient
    /\ IdleError
    /\ IdleUtils
    /\ optns = NoOptions /\ options = NoOptions

Next ==
    \/ \E e \in SpecEnvs : SetEnv(e)
    \/ \E o \in SpecOptions, id \in 0..MaxNow : CreateHttpClient(o, id)
    \/ DisposeHttpClient
    \/ \E o \in RequestOptions, id \in 0..MaxNow : Request(o, id)
    \/ \E u \in Urls, o \in SpecOptions, id \in 0..MaxNow : Del(u, o, id)
    \/ \E u \in Urls, o \in GetOptions, id \in 0..MaxNow : Get(u, o, id)
    \/ \E u \in Urls, o \in SpecOptions, id \in 0..MaxNow : head(u, o, id)
    \/ \E u \in Urls, o \in SpecOptions, id \in 0..MaxNow : Options(u, o, id)
    \/ \E u \in Urls, d \in SpecPayloads, o \in SpecOptions, id \in 0..MaxNow :
          Patch(u, d, o, id)
    \/ \E u \in Urls, d \in FilePayloads, o \in PostOptions, id \in 0..MaxNow :
          Post(u, d, o, id)
    \/ \E u \in Urls, d \in SpecPayloads, o \in SpecOptions, id \in 0..MaxNow :
          Put(u, d, o, id)
    \/ \E u \in Urls, d \in FilePayloads, o \in FileOptions, id \in 0..MaxNow :
          SendFile(u, d, o, id)
    \/ \E u \in Urls, o \in FetchOptions, id \in 0..MaxNow : FetchFile(u, o, id)
    \/ \E i \in 1..MaxCalls, r \in SpecResponses : TransportFulfil(i, r)
    \/ \E i \in 1..MaxCalls, raw \in SpecRejections : TransportReject(i, raw)
    \/ \E i \in 1..MaxCalls : WrapRequestThen(i)
    \/ \E i \in 1..MaxCalls : WrapRequestCatch(i)

Spec == Init /\ [][Next]_vars

(***************************************************************************)
(* Claims on the shortcuts and the client handle, under Spec.              *)
(***************************************************************************)
Shortcuts ==
    {"del", "get", "head", "options", "patch", "post", "put", "sendFile",
     "fetchFile"}

BodyShortcuts == {"patch", "post", "put", "sendFile"}

IsMissingPayload(e) == e.name = "Error" /\ e.message = Str("Missing Payload")

\* C6: every rejection a shortcut delivers carries status, code, message
\* and description, the "Missing Payload" rejection included.
C6_RejectionsNormalized ==
    \A i \in 1..Len(calls) :
        (calls[i].op \in Shortcuts /\ calls[i].promise = "rejected") =>
            \A k \in {"status", "code", "message", "description"} :
                calls[i].error[k] # Undefined

\* C7: post, put, patch and sendFile called with undefined, null, {}, [] or
\* '' return a promise rejected with Error('Missing Payload'), and the call
\* hands no request to a client, whatever the options are.
C7_MissingPayload ==
    \A i \in 1..Len(calls) :
        (calls[i].op \in BodyShortcuts /\ calls[i].payload \in EmptyPayloads)
        =>  /\ calls[i].promise = "rejected"
            /\ calls[i].result = "error"
            /\ IsMissingPayload(calls[i].error)
            /\ calls[i].transport = "none"
            /\ calls[i].client = 0
            /\ calls[i].request = NoOptions

\* each body-bearing shortcut has rejected one of the empty payloads, one of
\* them called with options
C7_Witness ==
    /\ \E i \in 1..Len(calls) :
          /\ calls[i].op = "sendFile"
          /\ calls[i].payload = ArrayPayload(0)
          /\ calls[i].optns.headers["X-API-Key"] = Str("key")
          /\ IsMissingPayload(calls[i].error)
    /\ httpClient = NoClient

\* the step appended a call that reached client.request
Issued ==
    /\ Len(calls') = Len(calls) + 1
    /\ calls'[Len(calls')].transport = "pending"

\* the step is a call of createHttpClient
Returned == returned' # returned /\ returned'.op = "createHttpClient"

\* C8: on every step other than disposeHttpClient an existing client stays
\* the handle, a client is created only when there is none, a request goes
\* to the client of the handle and createHttpClient returns it.
C8_Singleton ==
    [][~DisposeHttpClient =>
          /\ httpClient.t = "object" =>
                /\ httpClient' = httpClient
                /\ created' = created
          /\ created' \in {created, created + 1}
          /\ Issued => calls'[Len(calls')].client = httpClient'.instance
          /\ returned' # returned => returned'.client = httpClient'
          /\ (Issued \/ returned' # returned) => httpClient'.t = "object"
      ]_vars

\* one client was created, by a request; a later createHttpClient with other
\* options returned it
C8_Witness ==
    /\ created = 1
    /\ httpClient.instance = 1
    /\ \E i \in 1..Len(calls) : calls[i].client = 1
    /\ returned.op = "createHttpClient"
    /\ returned.client = httpClient
    /\ returned.optns.headers["X-API-Key"] = Str("key")
    /\ httpClient.defaults.headers["X-API-Key"] = Undefined

\* the headers of a client built from the options o
HeadersFrom(o) ==
    [h \in HeaderKeys |->
        IF Truthy(o.headers[h]) THEN o.headers[h]
        ELSE IF h \in {"Accept", "Content-Type"} THEN Str("application/json")
        ELSE Undefined]

\* the step appended a call, issued or rejected
Called == Len(calls') = Len(calls) + 1

\* C9 as stated: disposeHttpClient leaves no client and returns null, and
\* the first createHttpClient, request or shortcut call after it creates a
\* client.
C9_Original ==
    [][/\ DisposeHttpClient =>
             /\ httpClient' = NoClient
             /\ returned'.client = NoClient
       /\ (httpClient = NoClient /\ returned.op = "disposeHttpClient"
                                 /\ ~DisposeHttpClient
                                 /\ (Called \/ Returned)) =>
             httpClient'.t = "object"
      ]_vars

\* C9: disposeHttpClient leaves no client and returns null; a
\* createHttpClient call, or a request or shortcut call that reaches
\* client.request (one not rejected for a missing payload), made when there
\* is no client creates an instance that no earlier call used, with the
\* headers of that call's options over the default ones.
C9_DisposeThenFresh ==
    [][/\ DisposeHttpClient =>
             /\ httpClient' = NoClient
             /\ returned'.op = "disposeHttpClient"
             /\ returned'.client = NoClient
       /\ (httpClient = NoClient /\ ~DisposeHttpClient
                                 /\ (Issued \/ Returned)) =>
             /\ httpClient'.t = "object"
             /\ created' = created + 1
             /\ httpClient'.instance = created'
             /\ \A i \in 1..Len(calls) :
                   calls[i].client < httpClient'.instance
             /\ httpClient'.defaults.headers =
                   HeadersFrom(IF Issued THEN calls'[Len(calls')].optns
                               ELSE returned'.optns)
      ]_vars

\* a client was created and disposed of, and a request is in flight on a
\* second one, built from that request's options
C9_Witness ==
    /\ created = 2
    /\ httpClient.instance = 2
    /\ returned.op = "disposeHttpClient"
    /\ returned.client = NoClient
    /\ \E i \in 1..Len(calls) :
          /\ calls[i].client = 2
          /\ calls[i].optns.headers["X-API-Key"] = Str("key")
    /\ httpClient.defaults.headers["X-API-Key"] = Str("key")

(***************************************************************************)
(* Claims on the merge of withDefaults, under SpecDefaults.                *)
(***************************************************************************)
\* withDefaults has been applied to an options object
Merged == options # NoOptions /\ optns.t = "object"

\* C11 as stated: a shallow merge in which the caller wins, the result
\* holding the caller's value for every top-level key the caller supplies
\* (here: with a value that is not falsy).
C11_Original ==
    Merged =>
        /\ \A k \in ScalarKeys : Truthy(optns[k]) => options[k] = optns[k]
        /\ optns.headers # EmptyHeaders => options.headers = optns.headers

\* C11: the caller wins key by key, and within headers header by header: the
\* result holds the caller's value of every key other than headers that the
\* caller supplies with a value that is not falsy, and the caller's value
\* of every header the caller supplies; the default headers the caller does
\* not name stay.
C11_CallerWins ==
    Merged =>
        /\ \A k \in ScalarKeys : Truthy(optns[k]) => options[k] = optns[k]
        /\ \A h \in HeaderKeys :
              options.headers[h] =
                 IF optns.headers[h] # Undefined THEN optns.headers[h]
                 ELSE IF h \in {"Accept", "Content-Type"}
                      THEN Str("application/json")
                 ELSE Undefined

\* the caller's baseURL and Accept header replace the environment's and the
\* default one
C11_Witness ==
    /\ Merged
    /\ Truthy(env.BASE_URL)
    /\ optns.baseURL = Str("https://127.0.0.1/v3/")
    /\ options.baseURL = Str("https://127.0.0.1/v3/")
    /\ optns.headers["Accept"] = Str("text/plain")
    /\ options.headers["Accept"] = Str("text/plain")
    /\ options.headers["Content-Type"] = Str("application/json")
    /\ options.responseType = Str("stream")

\* the caller's headers do not name Accept or Content-Type
NamesNoDefault(o) ==
    /\ o.t = "object"
    /\ o.headers["Accept"] = Undefined
    /\ o.headers["Content-Type"] = Undefined

\* the two default headers and the caller's
Union(o) ==
    [h \in HeaderKeys |->
        IF h \in {"Accept", "Content-Type"} THEN Str("application/json")
        ELSE o.headers[h]]

RawShortcuts == {"head", "options"}

\* C13: a shortcut whose request the transport fulfilled resolves with
\* response.data (get, del, post, put, patch, sendFile, fetchFile: skipData
\* false) or with the raw response (head, options: skipData true).
C13_ResultShape ==
    \A i \in 1..Len(calls) :
        (calls[i].op \in Shortcuts /\ calls[i].promise = "fulfilled") =>
            /\ calls[i].transport = "fulfilled"
            /\ calls[i].skipData = (calls[i].op \in RawShortcuts)
            /\ IF calls[i].op \in RawShortcuts
               THEN calls[i].result = "response"
               ELSE /\ calls[i].result = "data"
                    /\ calls[i].data = calls[i].response.data

\* head has resolved with the raw response
C13_Witness ==
    \E i \in 1..Len(calls) :
        /\ calls[i].op = "head"
        /\ calls[i].promise = "fulfilled"
        /\ calls[i].response = OkResponse
        /\ calls[i].result = "response"

(***************************************************************************)
(* SpecNormalize: normalizeRequest applied to one request, either handed   *)
(* in by a caller of normalizeRequest or prepared by request() for a post  *)
(* (src/lib/index.js:398-410).                                             *)
(***************************************************************************)
NormalizeHeaders ==
    {EmptyHeaders,
     [EmptyHeaders EXCEPT !["X-API-Key"] = Str("key")],
     [EmptyHeaders EXCEPT !["Content-Type"] = Str("application/json")],
     [EmptyHeaders EXCEPT !["Content-Type"] = Str("multipart/form-data")],
     [EmptyHeaders EXCEPT !["Content-Type"] = Str("Multipart/Form-Data")],
     [EmptyHeaders EXCEPT !["content-type"] = Str("multipart/form-data")],
     [EmptyHeaders EXCEPT !["content-type"] = Str("application/json"),
                          !["Content-Type"] = Str("multipart/form-data")]}

NormalizePayloads ==
    {NoPayload,
     Mapping(NoEntries),
     Mapping([NoEntries EXCEPT !.name = Str("x")]),
     Mapping([NoEntries EXCEPT !.name = Str("x"),
                               !.image = ObjRef("file")]),
     FormData([NoEntries EXCEPT !.name = Str("x")], "form"),
     BrowserFormData([NoEntries EXCEPT !.name = Str("x")], "form")}

CallerRequests ==
    {[EmptyOptions EXCEPT !.headers = h, !.data = d, !.multipart = m,
                          !.responseType = r] :
        h \in NormalizeHeaders,
        d \in NormalizePayloads,
        m \in {Undefined, Bool(TRUE), Bool(FALSE)},
        r \in {Undefined, Str("stream")}}

\* { method: 'POST', url, data, ...optns } as request() prepares it
PostRequests ==
    {PreparedRequest(e, [c EXCEPT !.method = Str("POST"),
                                  !.url = Str("/users")]) :
        e \in SpecEnvs, c \in CallerRequests}

InitNormalize ==
    /\ requestOptions \in CallerRequests \cup PostRequests
    /\ normalizedRequest = NoOptions
    /\ renormalizedRequest = NoOptions
    /\ httpAgents = NoOptions
    /\ IdleDefaults
    /\ IdleError
    /\ IdleClient

NormalizeRequest ==
    /\ normalizedRequest = NoOptions
    /\ normalizedRequest' = normalizeRequest(requestOptions)
    /\ UNCHANGED <<requestOptions, renormalizedRequest, httpAgents,
                   errorVars, defaultsVars, clientVars>>

\* normalizeRequest(normalizeRequest(request))
NormalizeAgain ==
    /\ normalizedRequest # NoOptions
    /\ renormalizedRequest = NoOptions
    /\ renormalizedRequest' = normalizeRequest(normalizedRequest)
    /\ UNCHANGED <<requestOptions, normalizedRequest, httpAgents,
                   errorVars, defaultsVars, clientVars>>

NextNormalize == NormalizeRequest \/ NormalizeAgain

SpecNormalize == InitNormalize /\ [][NextNormalize]_vars

\* normalizeRequest has returned
Normalized == normalizedRequest # NoOptions

\* the value starts, case-insensitively, with 'multipart'
StartsWithMultipart(v) ==
    /\ v.t = "string"
    /\ v.s \in {"multipart/form-data", "Multipart/Form-Data",
                "multipart/form-data; boundary=x"}

C16_SendFileMultipart ==
    \A i \in 1..Len(calls) :
        (calls[i].op = "sendFile" /\ calls[i].payload \notin EmptyPayloads)
        =>  /\ calls[i].transport # "none"
            /\ calls[i].client # 0
            /\ calls[i].request.multipart = Bool(TRUE)
            /\ isFormData(calls[i].request.data)
            /\ calls[i].request.headers["content-type"] =
                  Str("multipart/form-data; boundary=x")
            /\ calls[i].request.method =
                  IF Truthy(calls[i].args.method) THEN calls[i].args.method
                  ELSE Str("POST")

\* sendFile has issued a mapping as a form although the options said
\* multipart: false
C16_Witness ==
    \E i \in 1..Len(calls) :
        /\ calls[i].op = "sendFile"
        /\ calls[i].payload = Mapping([NoEntries EXCEPT !.name = Str("x")])
        /\ calls[i].args.multipart = Bool(FALSE)
        /\ calls[i].request.multipart = Bool(TRUE)
        /\ calls[i].request.data.t = "formdata"
        /\ calls[i].request.method = Str("POST")

\* C18: the promise request() returns is the transport's: once the
\* transport has fulfilled it the promise is fulfilled with the response
\* itself, not its data, and once the transport has rejected it the promise is
\* rejected with the transport's rejection, to which mapResponseToError has
\* not been applied; a shortcut rejects with the normalised error.
C18_RequestPassesThrough ==
    \A i \in 1..Len(calls) :
        /\ calls[i].op = "request" =>
              /\ ~calls[i].wrapped
              /\ calls[i].data = NoCall.data
              /\ calls[i].error = NoCall.error
              /\ calls[i].transport = "pending" => calls[i].promise = "pending"
              /\ calls[i].transport = "fulfilled" =>
                    /\ calls[i].promise = "fulfilled"
                    /\ calls[i].result = "response"
                    /\ calls[i].response \in SpecResponses
              /\ calls[i].transport = "rejected" =>
                    /\ calls[i].promise = "rejected"
                    /\ calls[i].result = "raw"
                    /\ calls[i].rejection \in SpecRejections
        /\ (calls[i].op \in Shortcuts /\ calls[i].transport = "rejected"
              /\ calls[i].promise = "rejected") =>
              /\ calls[i].result = "error"
              /\ calls[i].error = mapResponseToError(calls[i].rejection)

\* a request() call was rejected with the transport's rejection of a 404
C18_Witness ==
    \E i \in 1..Len(calls) :
        /\ calls[i].op = "request"
        /\ calls[i].transport = "rejected"
        /\ calls[i].promise = "rejected"
        /\ calls[i].result = "raw"
        /\ calls[i].rejection = NotFound

(***************************************************************************)
(* SpecAgents: createAgents applied to one options object in one runtime,   *)
(* Node or not.                                                            *)
(***************************************************************************)
AgentEnvs ==
    [BASE_URL : {Undefined, Str("https://127.0.0.1/v1/")},
     REACT_APP_BASE_URL : {Undefined},
     isNode : BOOLEAN]

\* agentOptions: {} and objects with keepAlive, ca or both
AgentOptions ==
    [t : {"object"},
     keepAlive : {Undefined, Bool(TRUE), Bool(FALSE)},
     ca : {Undefined, Str("ca")}]

\* the options handed to createAgents: none, {} and objects with
\* agentOptions, with or without a header
AgentCallerOptions ==
    {NoOptions} \cup
    {[EmptyOptions EXCEPT !.agentOptions = a, !.headers = h] :
        a \in {NoAgentOptions} \cup AgentOptions,
        h \in {EmptyHeaders,
               [EmptyHeaders EXCEPT !["X-API-Key"] = Str("key")]}}

InitAgents ==
    /\ env \in AgentEnvs
    /\ optns \in AgentCallerOptions
    /\ options = NoOptions
    /\ IdleError
    /\ IdleClient
    /\ IdleUtils

CreateAgents ==
    /\ httpAgents = NoOptions
    /\ httpAgents' = createAgents(env, optns)
    /\ UNCHANGED <<env, optns, options, requestOptions, normalizedRequest,
                   renormalizedRequest, errorVars, clientVars>>

NextAgents == CreateAgents

SpecAgents == InitAgents /\ [][NextAgents]_vars

\* createAgents has returned
AgentsReturned == httpAgents # NoOptions

\* neither agent was created
NoAgents ==
    httpAgents.httpAgent = Undefined /\ httpAgents.httpsAgent = Undefined

\* an http agent and an https agent were created
BothAgents ==
    /\ httpAgents.httpAgent.t = "object"
    /\ httpAgents.httpAgent.s = "http.Agent"
    /\ httpAgents.httpsAgent.t = "object"
    /\ httpAgents.httpsAgent.s = "https.Agent"

\* both agents keep connections alive
KeepAlive == httpAgents.httpAgent.n = 1 /\ httpAgents.httpsAgent.n = 1

\* the caller's options carry no agentOptions, or {}
NoneGiven ==
    optns.agentOptions.t = "undefined" \/
        (optns.agentOptions.keepAlive = Undefined /\
         optns.agentOptions.ca = Undefined)

\* the caller's agentOptions hold an entry that is not falsy
SomeGiven ==
    optns.agentOptions.t = "object" /\
        (Truthy(optns.agentOptions.keepAlive) \/ Truthy(optns.agentOptions.ca))

MaxRequests == 2

\* the calls written as arguments of all
RequestCalls ==
    {[op |-> "request", url |-> Undefined, data |-> NoPayload,
      optns |-> [EmptyOptions EXCEPT !.url = Str("/roles")]],
     [op |-> "get", url |-> Str("/users"), data |-> NoPayload,
      optns |-> NoOptions],
     [op |-> "head", url |-> Str("/users"), data |-> NoPayload,
      optns |-> NoOptions],
     [op |-> "post", url |-> Str("/users"), data |-> Mapping(NoEntries),
      optns |-> NoOptions]}

AllArguments == UNION {[1..n -> RequestCalls] : n \in 2..MaxRequests}

AllResponses ==
    {OkResponse,
     MakeResponse([code |-> Undefined, status |-> Num(200),
                   statusText |-> Str("OK"), errors |-> Undefined],
                  [EmptyBody EXCEPT !.message = Str("roles")])}

\* the argument of request() that the call r builds
RequestArgument(r) ==
    CASE r.op = "request" -> r.optns
      [] r.op = "get" -> WithMethod("GET", r.url, r.optns)
      [] r.op = "head" -> WithMethod("HEAD", r.url, r.optns)
      [] r.op = "post" -> WithPayload("POST", r.url, r.data, r.optns)

\* the call r returns Promise.reject(new Error('Missing Payload'))
RejectsMissing(r) == r.op \in BodyShortcuts /\ isEmpty(r.data)

\* the client handle, the number of clients built and the calls, after the
\* calls reqs were made one after the other
RECURSIVE IssueAll(_, _)
IssueAll(reqs, id) ==
    IF reqs = << >>
    THEN [client |-> httpClient, created |-> created, calls |-> << >>]
    ELSE LET before == IssueAll(SubSeq(reqs, 1, Len(reqs) - 1), id)
             r == reqs[Len(reqs)]
             o == RequestArgument(r)
             client == createHttpClient(before.client, env,
                                        withDefaults(env, o),
                                        before.created + 1, id)
         IN  IF RejectsMissing(r)
             THEN [before EXCEPT
                      !.calls = Append(@, RejectedCall(r.op, r.data, r.optns))]
             ELSE [client |-> client,
                   created |-> IF client = before.client THEN before.created
                               ELSE before.created + 1,
                   calls |-> Append(before.calls,
                      IssuedCall(r.op, r.data, r.optns, o, client,
                                 NormalizedRequest(env, o),
                                 r.op = "head", r.op # "request"))]

\* no value
NoValue == [kind |-> "none", response |-> NoResponse, data |-> NoBody]

\* what the promise of call c was fulfilled with
Fulfilment(c) ==
    [kind |-> c.result,
     response |-> IF c.result = "response" THEN c.response ELSE NoResponse,
     data |-> c.data]

\* all(...reqs)
All(reqs, id) ==
    /\ calls = << >>
    /\ allPromise = NoAll
    /\ httpClient.t = "object" \/ created < MaxClients
    /\ LET issued == IssueAll(reqs, id)
       IN  /\ httpClient' = issued.client
           /\ created' = issued.created
           /\ calls' = issued.calls
    /\ allPromise' =
          [NoAll EXCEPT !.n = Len(reqs), !.state = "pending",
                        !.values = [k \in 1..Len(reqs) |-> NoValue]]
    /\ UNCHANGED <<env, returned, harnessVars>>

\* mutant of AllResolveElement: the values are kept in the order in which
\* the requests were fulfilled
AllResolveElementAsCompleted(k) ==
    /\ k <= allPromise.n
    /\ k \notin allPromise.seen
    /\ calls[k].promise = "fulfilled"
    /\ allPromise' =
          [allPromise EXCEPT
              !.seen = @ \cup {k},
              !.values[Cardinality(allPromise.seen) + 1] =
                    Fulfilment(calls[k]),
              !.state = IF @ = "pending" /\
                           allPromise.seen \cup {k} = 1..allPromise.n
                        THEN "fulfilled" ELSE @]
    /\ UNCHANGED <<env, httpClient, created, returned, calls, harnessVars>>

\* Promise.all reacts to the fulfilment of its k-th argument: the value
\* takes the k-th place, and the promise is fulfilled when no argument is
\* left
AllResolveElement(k) ==
    /\ k <= allPromise.n
    /\ k \notin allPromise.seen
    /\ calls[k].promise = "fulfilled"
    /\ allPromise' =
          [allPromise EXCEPT
              !.seen = @ \cup {k},
              !.values[k] = Fulfilment(calls[k]),
              !.state = IF @ = "pending" /\
                           allPromise.seen \cup {k} = 1..allPromise.n
                        THEN "fulfilled" ELSE @]
    /\ UNCHANGED <<env, httpClient, created, returned, calls, harnessVars>>

\* Promise.all reacts to the rejection of its k-th argument: the promise,
\* when still pending, is rejected with that rejection
AllRejectElement(k) ==
    /\ k <= allPromise.n
    /\ k \notin allPromise.seen
    /\ calls[k].promise = "rejected"
    /\ allPromise' =
          [allPromise EXCEPT
              !.seen = @ \cup {k},
              !.reason = IF allPromise.state = "pending" THEN k ELSE @,
              !.state = IF @ = "pending" THEN "rejected" ELSE @]
    /\ UNCHANGED <<env, httpClient, created, returned, calls, harnessVars>>


NextAll ==
    \/ \E reqs \in AllArguments, id \in 0..MaxNow : All(reqs, id)
    \/ DisposeHttpClient
    \/ \E i \in 1..MaxRequests, r \in AllResponses : TransportFulfil(i, r)
    \/ \E i \in 1..MaxRequests, raw \in SpecRejections :
          TransportReject(i, raw)
    \/ \E i \in 1..MaxRequests : WrapRequestThen(i)
    \/ \E i \in 1..MaxRequests : WrapRequestCatch(i)
    \/ \E k \in 1..MaxRequests : AllResolveElement(k)
    \/ \E k \in 1..MaxRequests : AllRejectElement(k)

SpecAll == Init /\ [][NextAll]_vars

\* the requests handed to all
Requests == 1..allPromise.n

\* C19: the promise of all(r1, ..., rn) is fulfilled only when every ri has
\* been fulfilled, and then holds the value of ri in the i-th place, in
\* whatever order the requests completed; it is rejected when it has reacted
\* to the rejection of an ri, with the rejection of one of them; and the
\* requests issued were all handed to one and the same client.
C19_All ==
    /\ allPromise.state = "fulfilled" =>
          \A k \in Requests :
              /\ calls[k].promise = "fulfilled"
              /\ allPromise.values[k] = Fulfilment(calls[k])
    /\ (\E k \in allPromise.seen : calls[k].promise = "rejected")
          => allPromise.state = "rejected"
    /\ allPromise.state = "rejected" =>
          /\ allPromise.reason \in allPromise.seen
          /\ calls[allPromise.reason].promise = "rejected"
    /\ (allPromise.state = "pending" /\ allPromise.n > 0)
          => allPromise.seen # Requests
    /\ \A i, j \in Requests :
          (calls[i].client # 0 /\ calls[j].client # 0)
              => calls[i].client = calls[j].client

\* all was fulfilled with the values of two requests, which differ, each in
\* the place of its request
C19_Witness ==
    /\ allPromise.n = 2
    /\ allPromise.state = "fulfilled"
    /\ allPromise.values[1] = Fulfilment(calls[1])
    /\ allPromise.values[2] = Fulfilment(calls[2])
    /\ allPromise.values[1] # allPromise.values[2]
    /\ calls[1].client = calls[2].client
    /\ calls[1].client # 0

(***************************************************************************)
(* Defaulting between message and description, under SpecError.            *)
(***************************************************************************)
\* 'Service Unavailable' of the no-response branch, 'Bad Request' of the
\* setup branch
DefaultDescription(raw) ==
    IF Branch(raw) = "request" THEN Str("Service Unavailable")
    ELSE Str("Bad Request")

\* data.message || response.statusText || message
SelectedMessage(raw) ==
    Or(Or(SelectedData(raw).message, raw.response.statusText), raw.message)

\* C20 (as stated): in the setup and no-response branches the message is the
\* description when the rejection has no message, and the description is
\* "Bad Request" / "Service Unavailable", not the message, when the
\* rejection has no description; in the server-response branch the
\* description is the selected message when the rejection has no
\* description.
C20_Original ==
    Mapped =>
        IF Branch(rawResponse) # "response"
        THEN /\ rawResponse.message = Undefined =>
                    error.message = error.description
             /\ rawResponse.description = Undefined =>
                    error.description = DefaultDescription(rawResponse)
        ELSE rawResponse.description = Undefined =>
                    error.description = error.message

\* C20 (amended): in the setup and no-response branches, a rejection that
\* supplies no message of its own (none truthy at its top level, none in its
\* data) gets as message its top-level description when that is truthy, else
\* "Bad Request" / "Service Unavailable", which is the error's description
\* too unless the data has a description; a rejection that supplies no
\* description of its own gets "Bad Request" / "Service Unavailable" as
\* description, also when it has a message.  In the server-response branch a
\* rejection with no truthy top-level description and no description in the
\* body gets the selected message as description when one is selected, and
\* no description otherwise.
C20_MessageAndDescription ==
    Mapped =>
        LET raw == rawResponse
            data == SelectedData(raw)
        IN  IF Branch(raw) # "response"
            THEN /\ SuppliesNo(raw, "message") =>
                      /\ error.message =
                            Or(raw.description, DefaultDescription(raw))
                      /\ data.description = Undefined =>
                            error.message = error.description
                 /\ SuppliesNo(raw, "description") =>
                      /\ error.description = DefaultDescription(raw)
                      /\ Truthy(raw.message) =>
                            error.description # error.message
            ELSE (~Truthy(raw.description) /\ data.description = Undefined)
                    => IF Truthy(SelectedMessage(raw))
                       THEN /\ error.description = SelectedMessage(raw)
                            /\ error.description = error.message
                       ELSE ~Truthy(error.description)

\* a setup rejection with a description and no message got the description
\* as its message
C20_Witness ==
    /\ Mapped
    /\ Branch(rawResponse) = "setup"
    /\ SuppliesNo(rawResponse, "message")
    /\ Truthy(rawResponse.description)
    /\ error.message = rawResponse.description
    /\ error.description = rawResponse.description

(***************************************************************************)
(* Branch selection, message order and the copied body, under SpecError.   *)
(***************************************************************************)
\* the defaults of the no-response branch
Defaults503 == {Num(503), Str("Service Unavailable")}

\* the defaults of the setup branch
Defaults400 == {Num(400), Str("Bad Request")}

\* the values of the error's status, code, message and description
NormalizedValues == {error[k] : k \in NormalizedKeys}

\* C21: a rejection that has a response is handled as a server response also
\* when it has a request: none of the 503 and "Service Unavailable" defaults
\* and none of the 400 and "Bad Request" defaults appears on its error, and
\* the status its response has is the error's unless the body has one; a
\* rejection that has a request gets none of the 400 defaults.
C21_BranchPriority ==
    Mapped =>
        /\ rawResponse.response.t = "object" =>
              /\ NormalizedValues \cap (Defaults503 \cup Defaults400) = {}
              /\ (/\ Truthy(rawResponse.response.status)
                  /\ SelectedData(rawResponse).status = Undefined)
                     => error.status = rawResponse.response.status
        /\ Truthy(rawResponse.request) =>
              NormalizedValues \cap Defaults400 = {}

\* a rejection with a request and a response, and no status or description
\* of its own, got the response's status and no default
C21_Witness ==
    /\ Mapped
    /\ Truthy(rawResponse.request)
    /\ rawResponse.response.t = "object"
    /\ rawResponse.status = Undefined
    /\ rawResponse.description = Undefined
    /\ error.status = Num(404)
    /\ error.description = Str("Not Found")

IssuedCalls == {i \in 1..Len(calls) : calls[i].transport # "none"}

Renormalized == renormalizedRequest # NoOptions

\* C25: normalizing the request normalizeRequest returned yields the same
\* headers, the same data (for a form, the very same instance) and the same
\* responseType.
C25_Idempotent ==
    Renormalized =>
        /\ renormalizedRequest.headers = normalizedRequest.headers
        /\ renormalizedRequest.data = normalizedRequest.data
        /\ renormalizedRequest.responseType = normalizedRequest.responseType

\* a mapping with the multipart flag was converted by the first
\* normalization, and the second one kept that form and its headers
C25_Witness ==
    /\ Renormalized
    /\ requestOptions.data.t = "object"
    /\ requestOptions.multipart = Bool(TRUE)
    /\ normalizedRequest.data.t = "formdata"
    /\ renormalizedRequest.data = normalizedRequest.data
    /\ renormalizedRequest.headers["content-type"] =
          Str("multipart/form-data; boundary=x")

\* calls[i] was handed a plain mapping, and its request is multipart
ConvertedCalls ==
    {i \in IssuedCalls :
        /\ calls[i].payload.t = "object"
        /\ calls[i].request.multipart = Bool(TRUE)}

\* C26 (as stated): a mapping that has keys passes the payload check of
\* post, put, patch and sendFile also when all its values are falsy, and is
\* sent as a form without entries; the form that takes the place of a
\* mapping holds exactly the entries whose value is truthy.
C26_Original ==
    /\ \A i \in 1..Len(calls) :
          (calls[i].op \in BodyShortcuts /\ calls[i].payload \in FalsyMappings)
              => /\ i \in IssuedCalls
                 /\ isFormData(calls[i].request.data)
                 /\ calls[i].request.data.entries = NoEntries
    /\ \A i \in ConvertedCalls :
          \A k \in EntryKeys :
              calls[i].request.data.entries[k] =
                  IF Truthy(calls[i].payload.entries[k])
                  THEN calls[i].payload.entries[k] ELSE Absent

\* C26 (amended): a mapping that has keys passes the payload check of post,
\* put, patch and sendFile also when all its values are falsy; the form that
\* a multipart request (sendFile, or one with the multipart flag) carries in
\* place of a mapping holds exactly the entries of the mapping whose value
\* is truthy, so none when all are falsy; a request that is not multipart
\* carries no form.
C26_FormEntries ==
    /\ \A i \in 1..Len(calls) :
          (calls[i].op \in BodyShortcuts /\ calls[i].payload \in FalsyMappings)
              => i \in IssuedCalls
    /\ \A i \in ConvertedCalls :
          /\ isFormData(calls[i].request.data)
          /\ \A k \in EntryKeys :
                calls[i].request.data.entries[k] =
                    IF Truthy(calls[i].payload.entries[k])
                    THEN calls[i].payload.entries[k] ELSE Absent
    /\ \A i \in IssuedCalls :
          (/\ calls[i].op \in BodyShortcuts
           /\ calls[i].payload.t = "object"
           /\ ~Truthy(calls[i].request.multipart))
              => ~isFormData(calls[i].request.data)

\* sendFile has issued a form without entries for a mapping whose only
\* value is ''
C26_Witness ==
    \E i \in ConvertedCalls :
        /\ calls[i].op = "sendFile"
        /\ calls[i].payload = Mapping([NoEntries EXCEPT !.name = Str("")])
        /\ calls[i].request.data.t = "formdata"
        /\ calls[i].request.data.entries = NoEntries

\* the verb of a shortcut
Verb(op) ==
    CASE op = "post" -> Str("POST")
      [] op = "put" -> Str("PUT")
      [] op = "patch" -> Str("PATCH")

\* C27: whenever post, put or patch hands a request to the client, its
\* method is the shortcut's verb, its url the url argument and its data the
\* data argument (for a multipart request, the form made of it), whatever
\* the options hold.
C27_VerbUrlPayload ==
    \A i \in IssuedCalls :
        calls[i].op \in {"post", "put", "patch"} =>
            /\ calls[i].request.method = Verb(calls[i].op)
            /\ calls[i].request.url \in Urls
            /\ calls[i].request.data =
                  IF calls[i].payload.t = "object" /\
                     Truthy(calls[i].request.multipart)
                  THEN toFormData(calls[i].payload)
                  ELSE calls[i].payload

\* C28: the client's defaults never hold a baseURL, and every call that
\* reaches the client hands it a request whose baseURL is the one of the
\* call's options when they give one, else the BASE_URL of the environment
\* at the time of the call, else its REACT_APP_BASE_URL, whether or not the
\* client existed before and without any dispose.
C28_BaseURLPerRequest ==
    [][/\ httpClient'.t = "object" => httpClient'.defaults.baseURL = Undefined
       /\ (Len(calls') = Len(calls) + 1 /\ Len(calls') \in IssuedCalls') =>
             LET c == calls'[Len(calls')]
             IN  IF Truthy(c.args.baseURL)
                 THEN c.request.baseURL = c.args.baseURL
                 ELSE SameSetting(c.request.baseURL,
                                  Or(env.BASE_URL, env.REACT_APP_BASE_URL))
      ]_vars

\* a client built by createHttpClient({headers: {'X-API-Key': ...}}) was
\* handed a get request for the baseURL of the call's options, while
\* BASE_URL names another one
C28_Witness ==
    /\ created = 1
    /\ httpClient.t = "object"
    /\ httpClient.defaults.headers["X-API-Key"] = Str("key")
    /\ httpClient.defaults.baseURL = Undefined
    /\ env.BASE_URL = Str("https://127.0.0.1/v1/")
    /\ \E i \in IssuedCalls :
          /\ calls[i].op = "get"
          /\ calls[i].client = httpClient.instance
          /\ calls[i].args.headers = EmptyHeaders
          /\ calls[i].args.baseURL = Str("https://127.0.0.1/v3/")
          /\ calls[i].request.baseURL = Str("https://127.0.0.1/v3/")

(***************************************************************************)
(* SpecDispose: requests and shortcut calls issued one after the other,    *)
(* with disposeHttpClient and the transport's settlements in any order     *)
(* between them.                                                           *)
(***************************************************************************)
MaxInFlight == 2

\* one call of request, get, head or post
IssueCall(r, id) ==
    /\ Len(calls) < MaxInFlight
    /\ httpClient.t = "object" \/ created < MaxClients
    /\ LET issued == IssueAll(<<r>>, id)
       IN  /\ httpClient' = issued.client
           /\ created' = issued.created
           /\ calls' = calls \o issued.calls
    /\ UNCHANGED <<env, returned, allPromise, harnessVars>>


NextDispose ==
    \/ \E r \in RequestCalls, id \in 0..MaxNow : IssueCall(r, id)
    \/ DisposeHttpClient
    \/ \E i \in 1..MaxInFlight, r \in AllResponses : TransportFulfil(i, r)
    \/ \E i \in 1..MaxInFlight, raw \in SpecRejections :
          TransportReject(i, raw)
    \/ \E i \in 1..MaxInFlight : WrapRequestThen(i)
    \/ \E i \in 1..MaxInFlight : WrapRequestCatch(i)

SpecDispose == Init /\ [][NextDispose]_vars

\* the step disposes of a client
Disposes == httpClient.t = "object" /\ httpClient'.t = "null"

\* the step hands a request to a client
Issues == Len(calls') = Len(calls) + 1 /\ Len(calls') \in IssuedCalls'

\* C29: a step that disposes of the client leaves every call as it is, and
\* no step changes the client or the request of a call made before; a call
\* whose transport is pending can be settled whether or not its client is
\* still the current one, and its wrapped promise then holds the data (or
\* the response) or the normalised error; a call made while there is no
\* client is handed to a client built in that very step, which no earlier
\* call was handed to; and every request is handed to a client.
C29_DisposeInFlight ==
    [][/\ Disposes => calls' = calls
       /\ \A i \in 1..Len(calls) :
             /\ calls'[i].client = calls[i].client
             /\ calls'[i].request = calls[i].request
             /\ calls[i].transport = "pending" =>
                   /\ ENABLED TransportFulfil(i, OkResponse)
                   /\ ENABLED TransportReject(i, NotFound)
       /\ \A i \in 1..Len(calls') :
             /\ i \in IssuedCalls' => calls'[i].client \in 1..created'
             /\ (calls'[i].wrapped /\ calls'[i].promise = "fulfilled") =>
                   /\ calls'[i].result =
                         WrapThen(calls'[i].response,
                                  calls'[i].skipData).kind
                   /\ calls'[i].data =
                         WrapThen(calls'[i].response,
                                  calls'[i].skipData).data
             /\ (calls'[i].wrapped /\ calls'[i].transport = "rejected"
                   /\ calls'[i].promise = "rejected") =>
                   calls'[i].error = mapResponseToError(calls'[i].rejection)
       /\ (Issues /\ httpClient.t = "null") =>
             /\ created' = created + 1
             /\ httpClient'.instance = created'
             /\ calls'[Len(calls')].client = created'
             /\ \A i \in 1..Len(calls) : calls[i].client # created'
      ]_vars

\* the first call was fulfilled on the client it was handed to, which is
\* not the current one any more: the second call, still in flight, was
\* handed to a client built after a dispose
C29_Witness ==
    /\ Len(calls) = 2
    /\ calls[1].wrapped
    /\ calls[1].client = 1
    /\ calls[1].promise = "fulfilled"
    /\ calls[1].result = "data"
    /\ calls[2].client = 2
    /\ calls[2].transport = "pending"
    /\ httpClient.instance = 2

(***************************************************************************)
(* SpecWrap: wrapRequest(request, skipData) applied to one promise, which   *)
(* is then fulfilled or rejected with any value.                           *)
(***************************************************************************)
\* what the promise may be fulfilled with: also undefined, and a response
\* that has no data
WrapResponses ==
    {OkResponse, NoResponse,
     MakeResponse([code |-> Undefined, status |-> Num(204),
                   statusText |-> Undefined, errors |-> Undefined], NoBody)}

\* what the promise may be rejected with: also undefined
WrapRejections ==
    {UndefinedRaw, NotFound} \cup
    {MakeRaw(top, NoBody, rq, NoResponse) :
        top \in Tops(0) \cup Tops(1) \cup Tops(2),
        rq \in {Undefined, ObjRef("request")}}

\* wrapRequest(request, skipData)
WrapRequest(skipData) ==
    /\ calls = << >>
    /\ calls' = <<[NoCall EXCEPT !.op = "wrapRequest", !.skipData = skipData,
                                 !.wrapped = TRUE, !.transport = "pending"]>>
    /\ UNCHANGED <<env, httpClient, created, returned, allPromise,
                   harnessVars>>


NextWrap ==
    \/ \E skipData \in BOOLEAN : WrapRequest(skipData)
    \/ \E i \in 1..MaxCalls, r \in WrapResponses : TransportFulfil(i, r)
    \/ \E i \in 1..MaxCalls, raw \in WrapRejections : TransportReject(i, raw)
    \/ \E i \in 1..MaxCalls : WrapRequestThen(i)
    \/ \E i \in 1..MaxCalls : WrapRequestCatch(i)

SpecWrap == Init /\ [][NextWrap]_vars

\* C30: the promise wrapRequest returns is fulfilled exactly when the
\* promise it was handed was fulfilled, whatever the value, and when it is
\* rejected the rejection is a normalised Error, the one mapResponseToError
\* returns for the rejection it was handed.
C30_OutcomePreserved ==
    \A i \in 1..Len(calls) :
        (calls[i].wrapped /\ calls[i].promise # "pending") =>
            /\ calls[i].promise = "fulfilled"
                  <=> calls[i].transport = "fulfilled"
            /\ calls[i].promise = "rejected" =>
                  /\ calls[i].result = "error"
                  /\ calls[i].error.name = "Error"
                  /\ calls[i].rejection.t = "object" =>
                        calls[i].error = mapResponseToError(calls[i].rejection)

=============================================================================
